---- MODULE Spec2Model ----
(***************************************************************************)
(* Size-constrained JPEG re-encoding search of PDFTOJPGCURSOR:             *)
(*   - the batch tool, tools/uscis-compress.mjs                            *)
(*       parseArgs -> compressWithTarget -> encodeAtQuality                *)
(*   - the web tool (main script)                                          *)
(*       compressImages / encodeCanvasSmart -> encodeCanvasFitUnder        *)
(*       -> canvasToJpegBlob                                               *)
(*                                                                         *)
(* Fidelity (quality on the 0..1 scale) is an integer number of units of   *)
(* 1/102400, so that 0.01 is 1024 units and ten successive midpoints of an *)
(* interval whose ends are multiples of 0.01 are exact.                    *)
(*                                                                         *)
(* One step of the model is the code between two awaits: every encoder     *)
(* call is one step, together with the synchronous code that follows it.   *)
(***************************************************************************)
EXTENDS Integers, Sequences, FiniteSets, TLC

VARIABLES
    tool,         \* "cli" | "web": which program runs
    pc,           \* position of the running program
    encoder,      \* the external encoder: "stub" | "free"
    memo,         \* encoder results of the current image and variant: {<<key, size>>}
    argv,         \* cli: the command line as given
    args,         \* cli: the args object parseArgs returns
    st,           \* web: the settings part of the global state object
    caller,       \* web: "compressImages" | "encodeCanvasSmart"
    opts,         \* web: the opts encodeCanvasFitUnder is called with
    vi,           \* cli: index of the loop variable v in variants
    atBase,       \* cli: const atBase of the current iteration
    lo, hi,       \* binary search bounds (both tools)
    best, bestQ,  \* best / bestQ (cli), bestBlob / bestQ (web)
    i,            \* binary search loop counter (both tools)
    tried,        \* web: let tried
    bestFit,      \* cli: let bestFit
    bestClarity,  \* cli: let bestClarity
    result,       \* the value returned by compressWithTarget / encodeCanvasFitUnder
    calls,        \* history: number of encoder calls of this invocation
    probes,       \* history: probe encodes of the current binary search
    fitSeen,      \* history: some encode of this invocation had size <= target
    lastEnc,      \* history: the latest encoder call
    baseSizes,    \* history: cli, sizes of the base-fidelity encodes, in variant order
    minOver,      \* history: cli, number of min-fidelity encodes that exceeded target
    source,       \* the decoded input image: its pixel width and height
    canvas,       \* web: width and height of the canvas handed to the encoder
    item,         \* web: width and height compressImages records in the item
    run,          \* 0: a single call; 1, 2: first and second of two calls on the same input
    log,          \* history: the encoder calls of this call, in order (kept when run > 0)
    first,        \* history: log and result of the first of two calls
    found,        \* history: the locals of the latest binary search as its loop ended
    inputs,       \* cli main: const inputs, the input paths in order
    existed,      \* history: cli, the output paths that existed before the run
    cur,          \* main / compressImages: number of loop iterations begun
    ok, fail,     \* cli main: let ok, let fail
    exitCode,     \* cli main: process.exitCode
    files,        \* cli main: the output paths that exist in outDir
    imgFiles,     \* web: state.imgFiles
    busy,         \* web: state.busy
    toast,        \* web: the kind of the last toast shown ("" for none)
    writes,       \* history: cli, the fs.writeFile calls that succeeded, in order
    events,       \* history: what befell each iteration, in order
    mode,         \* web: state.mode, "individual" | "combined"
    pageCount,    \* web: state.pageCount (0 when no PDF is loaded: state.pdfDoc null)
    pages,        \* web: state.pages.length
    running,      \* web: the calls between their setBusy(true) and setBusy(false)
    estimateToken, \* web: let _estimateToken
    estimates,    \* web: the updateCombinedEstimate calls awaiting a page
    combinedPlan  \* web: the textContent of #combinedPlan

vars == <<tool, pc, encoder, memo, argv, args, st, caller, opts, vi, atBase, lo, hi,
          best, bestQ, i, tried, bestFit, bestClarity, result, calls, probes,
          fitSeen, lastEnc, baseSizes, minOver, source, canvas, item, run, log, first, found,
          inputs, existed, cur, ok, fail, exitCode, files, imgFiles, busy, toast, writes,
          events, mode, pageCount, pages, running, estimateToken, estimates,
          combinedPlan>>

\* The variables of the page around the loops: mode, loaded PDF, running calls
\* and the combined estimate.
UiUnchanged ==
    UNCHANGED <<mode, pageCount, pages, running, estimateToken, estimates,
                combinedPlan>>

\* The variables of the loops over inputs (main) and over images (compressImages).
BatchUnchanged ==
    /\ UNCHANGED <<inputs, existed, cur, ok, fail, exitCode, files, imgFiles, busy,
                   toast, writes, events>>
    /\ UiUnchanged

-----------------------------------------------------------------------------
(* Numbers *)

Scale == 100 * 1024
Pct(p) == p * 1024

Max(a, b) == IF a >= b THEN a ELSE b
Min(a, b) == IF a <= b THEN a ELSE b

\* A JavaScript number: finite with a value, or NaN / +-Infinity.
Num(v) == [fin |-> TRUE, val |-> v]
NotFinite == [fin |-> FALSE, val |-> 0]

\* null is <<>>, a present value v is <<v>>.
Null == <<>>
Some(v) == <<v>>
\* Mutant: only null counts as "no value", 0 does not.
FalsyNullOnly(t) == t = Null

\* JavaScript !t for a number or null.
Falsy(t) == IF t = Null THEN TRUE ELSE t[1] = 0

-----------------------------------------------------------------------------
(* Bounds of the model *)

\* The free encoder returns sizes target-1 .. target+MaxOver.
MaxOver == 2

-----------------------------------------------------------------------------
(* The external encoder *)

\* Scenario stub of the specification: size = floor(1,000,000 x fidelity),
\* whatever the variant. In units, 1,000,000 / 102400 = 15625 / 1600.
StubSize(q) == (q * 15625) \div 1600

\* Any encoder: the size of an encode is any of target-1 .. target+MaxOver
\* (around one fidelity unit when no target is set).
FreeSizes(target) ==
    LET c == IF Falsy(target) THEN Scale ELSE target[1]
    IN  {c + d : d \in (0 - 1)..MaxOver}

\* jpegOpts: quality: Math.round(quality01 * 100), the number sharp is given.
jpegQuality(q) == (q * 100 + (Scale \div 2)) \div Scale

\* What the encoder's output depends on besides the image and the variant:
\* sharp sees the rounded percentage, canvas.toBlob and the stub the fidelity.
EncKey(q) == IF tool = "cli" /\ encoder = "free" THEN jpegQuality(q) ELSE q

\* The encoder is deterministic: the same image, variant and key give the same
\* bytes. memo holds the results for the current image and variant.
\* In the second of two calls on the same image the results of the first call
\* (first[1].log) bind the encoder as well; used is the options of the encode.
EncSizes(q, used, target) ==
    LET before == IF run = 2 THEN first[1].log ELSE <<>>
        same == {k \in 1..Len(before) :
                    before[k].used = used /\ EncKey(before[k].q) = EncKey(q)}
    IN  IF \E m \in memo : m[1] = EncKey(q)
        THEN {m[2] : m \in {n \in memo : n[1] = EncKey(q)}}
        ELSE IF same # {} THEN {before[k].size : k \in same}
        ELSE IF encoder = "stub" THEN {StubSize(q)} ELSE FreeSizes(target)

\* The results a binary search over [l, h] can still ask for again: every later
\* midpoint lies inside the interval, so only the keys of its two ends can recur.
MemoKeep(m, l, h) == {e \in m : e[1] \in {EncKey(l), EncKey(h)}}

\* Pixel width and height.
Dims(w, h) == [width |-> w, height |-> h]

\* Mutant: a resize put into the pipeline.
SharpPipelineResized(o) == <<"resize", "jpeg">>

\* The operations encodeAtQuality chains on sharp(inputPath) for options o.
SharpPipeline(o) == IF ~o.stripMetadata THEN <<"withMetadata", "jpeg">> ELSE <<"jpeg">>

\* The pixel dimensions of the output of a sharp pipeline on an image of
\* dimensions d: only a resize changes them (to fit a 2000 pixel square here).
RECURSIVE PipelineDims(_, _)
PipelineDims(ops, d) ==
    IF ops = <<>> THEN d
    ELSE PipelineDims(Tail(ops),
                      IF Head(ops) = "resize"
                      THEN Dims(Min(d.width, 2000), Min(d.height, 2000)) ELSE d)

\* An encoded buffer: the fidelity and options it was encoded with, its length,
\* the pixel dimensions of the image in it.
Buf(q, used, s) ==
    [q |-> q, used |-> used, size |-> s, dims |-> PipelineDims(SharpPipeline(used), source)]

\* canvasToJpegBlob: canvas.toBlob encodes the canvas as it is, cv its dimensions.
canvasToJpegBlob(cv, q, s) == [q |-> q, used |-> Null, size |-> s, dims |-> cv]

\* Mutants: the comparison made strict, and inverted.
FitsStrict(size, target) == size < target[1]
FitsInverted(size, target) == size > target[1]

\* size <= target, the test of every fit in both tools.
Fits(size, target) == size <= target[1]

\* History of one encoder call.
Encoded(kind, b, target) ==
    /\ calls' = calls + 1
    /\ lastEnc' = Some([kind |-> kind, q |-> b.q, used |-> b.used, size |-> b.size,
                         dims |-> b.dims])
    /\ fitSeen' = IF Falsy(target) THEN fitSeen ELSE (fitSeen \/ b.size <= target[1])
    /\ log' = IF run = 0 THEN log
              ELSE Append(log, [kind |-> kind, q |-> b.q, used |-> b.used, size |-> b.size])

-----------------------------------------------------------------------------
(* The batch tool: tools/uscis-compress.mjs *)

\* clamp01 calls die() on a number that is not finite.
clamp01Dies(x) == ~x.fin

\* Mutant: the lower end of the clamp forgotten.
clamp01NoFloor(x) == Min(Pct(100), x.val)

clamp01(x) == Max(Pct(10), Min(Pct(100), x.val))

\* normalizeSubsample: the two spellings of each mode, die() on anything else.
normalizeSubsampleDies(s) == s \notin {"4:4:4", "444", "4:2:0", "420"}
normalizeSubsample(s) == IF s \in {"4:4:4", "444"} THEN "4:4:4" ELSE "4:2:0"

\* A string is a sequence of one-character strings.
DigitChars == <<"0", "1", "2", "3", "4", "5", "6", "7", "8", "9">>
IsDigit(c) == \E d \in 1..Len(DigitChars) : DigitChars[d] = c
DigitVal(c) == (CHOOSE d \in 1..Len(DigitChars) : DigitChars[d] = c) - 1
WhiteSpace == {" ", "\t", "\n"}
UpperChars == <<"B", "G", "K", "M", "X">>
LowerChars == <<"b", "g", "k", "m", "x">>

\* Mutant: the letter case kept as typed.
toLowerCaseKeep(s) == s

\* String.prototype.toLowerCase
toLowerCase(s) ==
    [k \in 1..Len(s) |->
        IF \E u \in 1..Len(UpperChars) : UpperChars[u] = s[k]
        THEN LowerChars[CHOOSE u \in 1..Len(UpperChars) : UpperChars[u] = s[k]]
        ELSE s[k]]

\* String.prototype.trim: white space removed at both ends.
RECURSIVE trim(_)
trim(s) ==
    IF s = <<>> THEN s
    ELSE IF s[1] \in WhiteSpace THEN trim(Tail(s))
    ELSE IF s[Len(s)] \in WhiteSpace THEN trim(SubSeq(s, 1, Len(s) - 1))
    ELSE s

\* /^\d+$/
AllDigits(s) == s # <<>> /\ \A k \in 1..Len(s) : IsDigit(s[k])

\* Number(s) of a string of digits.
RECURSIVE DigitsVal(_)
DigitsVal(s) ==
    IF s = <<>> THEN 0
    ELSE DigitsVal(SubSeq(s, 1, Len(s) - 1)) * 10 + DigitVal(s[Len(s)])

RECURSIVE Pow10(_)
Pow10(k) == IF k = 0 THEN 1 ELSE 10 * Pow10(k - 1)

\* The groups of /^(\d+(\.\d+)?)(kb|mb|gb)$/ on raw: the digits before the point,
\* the digits after it (none without a point), the unit; null without a match.
UnitMatch(raw) ==
    LET n == Len(raw)
        num == SubSeq(raw, 1, n - 2)
        unit == SubSeq(raw, n - 1, n)
        dots == {k \in 1..Len(num) : num[k] = "."}
    IN  IF n < 3 \/ unit \notin {<<"k", "b">>, <<"m", "b">>, <<"g", "b">>} THEN Null
        ELSE IF dots = {}
             THEN IF AllDigits(num) THEN Some([int |-> num, frac |-> <<>>, unit |-> unit])
                  ELSE Null
             ELSE LET d == CHOOSE k \in dots : TRUE
                      int == SubSeq(num, 1, d - 1)
                      frac == SubSeq(num, d + 1, Len(num))
                  IN  IF AllDigits(int) /\ AllDigits(frac)
                      THEN Some([int |-> int, frac |-> frac, unit |-> unit])
                      ELSE Null

\* Math.floor((whole + rem / den) * 1024^u), one factor 1024 at a time so that
\* no intermediate value is larger than the result.
RECURSIVE FloorTimes1024(_, _, _, _)
FloorTimes1024(whole, rem, den, u) ==
    IF u = 0 THEN whole
    ELSE FloorTimes1024(whole * 1024 + (rem * 1024) \div den, (rem * 1024) % den,
                        den, u - 1)

\* const raw = String(s).trim().toLowerCase()
Raw(s) == toLowerCase(trim(s))

\* parseSizeToBytes calls die() on a string that matches neither pattern.
parseSizeToBytesDies(s) == ~AllDigits(Raw(s)) /\ UnitMatch(Raw(s)) = Null

parseSizeToBytes(s) ==
    IF AllDigits(Raw(s)) THEN DigitsVal(Raw(s))
    ELSE LET m == UnitMatch(Raw(s))[1]
             u == IF m.unit = <<"k", "b">> THEN 1
                  ELSE IF m.unit = <<"m", "b">> THEN 2 ELSE 3
         IN  FloorTimes1024(DigitsVal(m.int), DigitsVal(m.frac), Pow10(Len(m.frac)), u)

\* const variants of compressWithTarget, in search order.
variants ==
    << [subsample |-> "4:4:4", progressive |-> FALSE, stripMetadata |-> TRUE],
       [subsample |-> "4:4:4", progressive |-> TRUE,  stripMetadata |-> TRUE],
       [subsample |-> "4:2:0", progressive |-> FALSE, stripMetadata |-> TRUE],
       [subsample |-> "4:2:0", progressive |-> TRUE,  stripMetadata |-> TRUE] >>

\* The user's toggles as held in args.
ArgsToggles(a) ==
    [subsample |-> a.subsample, progressive |-> a.progressive,
     stripMetadata |-> a.stripMetadata]

\* Mutant: with no overrides, the first variant of the table instead of the args.
EffectiveOptsFirstVariant(a, overrides) ==
    IF overrides = Null THEN variants[1] ELSE overrides[1]

\* encodeAtQuality: each option is overrides?.x ?? args.x.
EffectiveOpts(a, overrides) ==
    IF overrides = Null THEN ArgsToggles(a) ELSE overrides[1]

\* const baseQ, minQ of compressWithTarget.
baseQ == clamp01(Num(args.quality))
minQ == clamp01(Num(args.minQuality))

\* The for condition of the binary search: i < 10 && hi - lo > 0.015.
MaxProbesCli == 10
TolCli == (15 * 1024) \div 10
\* Mutant: the search stops as soon as the interval is 0.05 wide.
LoopCondCliLoose(n, l, h) == n < MaxProbesCli /\ h - l > Pct(5)
\* Mutant: a plain while (lo < hi) search, no probe limit and no tolerance.
LoopCondCliNoLimit(n, l, h) == h - l > 0

LoopCondCli(n, l, h) == n < MaxProbesCli /\ h - l > TolCli

CliLocalsReset ==
    /\ atBase' = Null /\ lo' = 0 /\ hi' = 0 /\ best' = Null /\ bestQ' = 0 /\ i' = 0

WebUnchanged == UNCHANGED <<st, caller, opts, tried, canvas, item>>

\* JavaScript !size for a string or null: null and "" are falsy.
EmptyOrNull(size) == IF size = Null THEN TRUE ELSE size[1] = <<>>

parseArgs ==
    /\ tool = "cli" /\ pc = "parseArgs"
    /\ log' = log
    /\ IF \/ clamp01Dies(argv.quality)
          \/ clamp01Dies(argv.minQuality)
          \/ normalizeSubsampleDies(argv.subsample)
          \/ (~EmptyOrNull(argv.size) /\ parseSizeToBytesDies(argv.size[1]))
       THEN /\ pc' = "abort"
            /\ args' = args
       ELSE /\ pc' = "start"
            /\ args' = [quality |-> clamp01(argv.quality),
                        minQuality |-> clamp01(argv.minQuality),
                        subsample |-> normalizeSubsample(argv.subsample),
                        progressive |-> argv.progressive,
                        stripMetadata |-> argv.stripMetadata,
                        overwrite |-> argv.overwrite,
                        maxSizeBytes |-> IF EmptyOrNull(argv.size) THEN Null
                                         ELSE Some(parseSizeToBytes(argv.size[1]))]
    /\ UNCHANGED <<tool, encoder, memo, argv, vi, atBase, lo, hi, best, bestQ, i,
                   bestFit, bestClarity, result, calls, probes, fitSeen, lastEnc,
                   baseSizes, minOver>>
    /\ UNCHANGED <<source, run, first, found>>
    /\ BatchUnchanged
    /\ WebUnchanged

\* compressWithTarget, if (!target): one encode with the args as they are.
CwtNoTarget ==
    /\ tool = "cli" /\ pc = "start"
    /\ Falsy(args.maxSizeBytes)
    /\ \E s \in EncSizes(args.quality, EffectiveOpts(args, Null), args.maxSizeBytes) :
         LET b == Buf(args.quality, EffectiveOpts(args, Null), s)
         IN  /\ result' = Some([buf |-> b, usedQuality |-> args.quality,
                                used |-> ArgsToggles(args), pass |-> TRUE])
             /\ Encoded("base", b, args.maxSizeBytes)
             /\ memo' = memo \cup {<<EncKey(b.q), s>>}
    /\ pc' = "done"
    /\ UNCHANGED <<tool, encoder, argv, args, vi, atBase, lo, hi, best, bestQ, i,
                   bestFit, bestClarity, probes, baseSizes, minOver>>
    /\ UNCHANGED <<source, run, first, found>>
    /\ BatchUnchanged
    /\ WebUnchanged

\* Mutant: a tie replaces the tracked encode, so the latest variant wins.
BetterClarityOrEqual(s, bc) == IF bc = Null THEN TRUE ELSE s <= bc[1].buf.size

\* if (!bestClarity || atBase.length < bestClarity.buf.length): the base encode of
\* size s replaces the tracked one bc.
BetterClarity(s, bc) == IF bc = Null THEN TRUE ELSE s < bc[1].buf.size

\* Mutant: after the last variant a fit found by a binary search is returned.
NextIterationReturnsFit(bf) ==
    /\ bestFit' = bf
    /\ CliLocalsReset
    /\ IF vi < Len(variants)
       THEN /\ vi' = vi + 1
            /\ pc' = "atBase"
            /\ result' = result
       ELSE /\ vi' = vi
            /\ pc' = "done"
            /\ result' = IF bf # Null
                         THEN Some([buf |-> bf[1].buf, usedQuality |-> bf[1].q,
                                    used |-> bf[1].used, pass |-> TRUE])
                         ELSE Some([buf |-> bestClarity[1].buf,
                                    usedQuality |-> bestClarity[1].q,
                                    used |-> bestClarity[1].used,
                                    pass |-> FALSE])

\* The end of one iteration of for (const v of variants), bestFit being bf: the
\* next variant, or after the last one the best-clarity return with pass: false.
NextIteration(bf) ==
    /\ bestFit' = bf
    /\ CliLocalsReset
    /\ IF vi < Len(variants)
       THEN /\ vi' = vi + 1
            /\ pc' = "atBase"
            /\ result' = result
       ELSE /\ vi' = vi
            /\ pc' = "done"
            /\ result' = Some([buf |-> bestClarity[1].buf,
                               usedQuality |-> bestClarity[1].q,
                               used |-> bestClarity[1].used,
                               pass |-> FALSE])

\* Mutant: the loop body without bestQ = mid.
SearchStepCliStaleBestQ(l, h, bst, bq, n) ==
    IF LoopCondCli(n, l, h)
    THEN /\ lo' = l /\ hi' = h /\ best' = Some(bst) /\ bestQ' = minQ /\ i' = n
         /\ pc' = "search"
         /\ UNCHANGED <<vi, atBase, bestFit, result, found>>
    ELSE /\ found' = Some([lo |-> l, hi |-> h, best |-> bst, bestQ |-> minQ, i |-> n])
         /\ NextIteration(IF bestFit = Null
                          THEN Some([buf |-> bst, q |-> minQ, used |-> variants[vi]])
                          ELSE bestFit)

\* The binary search loop with locals l, h, bst, bq and counter n: the next probe
\* if the for condition holds, else the code after the loop
\* (if (!bestFit) bestFit = {buf: best, q: bestQ, used: v}) and the next iteration.
SearchStepCli(l, h, bst, bq, n) ==
    IF LoopCondCli(n, l, h)
    THEN /\ lo' = l /\ hi' = h /\ best' = Some(bst) /\ bestQ' = bq /\ i' = n
         /\ pc' = "search"
         /\ UNCHANGED <<vi, atBase, bestFit, result, found>>
    ELSE /\ found' = Some([lo |-> l, hi |-> h, best |-> bst, bestQ |-> bq, i |-> n])
         /\ NextIteration(IF bestFit = Null
                          THEN Some([buf |-> bst, q |-> bq, used |-> variants[vi]])
                          ELSE bestFit)

\* const atBase = await encodeAtQuality(inputPath, args, baseQ, v) and what follows.
EncodeBase ==
    /\ tool = "cli" /\ pc \in {"start", "atBase"}
    /\ ~Falsy(args.maxSizeBytes)
    /\ \E s \in EncSizes(baseQ, EffectiveOpts(args, Some(variants[vi])), args.maxSizeBytes) :
         LET v == variants[vi]
             b == Buf(baseQ, EffectiveOpts(args, Some(v)), s)
             here == Some([buf |-> b, q |-> baseQ, used |-> v])
         IN  /\ Encoded("base", b, args.maxSizeBytes)
             /\ baseSizes' = Append(baseSizes, s)
             /\ bestClarity' = IF BetterClarity(s, bestClarity) THEN here
                               ELSE bestClarity
             /\ IF Fits(s, args.maxSizeBytes)
                THEN /\ bestFit' = IF bestFit = Null THEN here ELSE bestFit
                     /\ result' = Some([buf |-> b, usedQuality |-> baseQ,
                                        used |-> v, pass |-> TRUE])
                     /\ pc' = "done"
                     /\ atBase' = Null
                     /\ memo' = {}
                ELSE /\ atBase' = Some(b)
                     /\ pc' = "atMin"
                     /\ memo' = {<<EncKey(baseQ), s>>}
                     /\ UNCHANGED <<bestFit, result>>
    /\ probes' = 0
    /\ UNCHANGED <<tool, encoder, argv, args, vi, lo, hi, best, bestQ, i, minOver>>
    /\ UNCHANGED <<source, run, first, found>>
    /\ BatchUnchanged
    /\ WebUnchanged

\* const atMin = await encodeAtQuality(inputPath, args, minQ, v) and what follows.
EncodeMin ==
    /\ tool = "cli" /\ pc = "atMin"
    /\ \E s \in EncSizes(minQ, EffectiveOpts(args, Some(variants[vi])), args.maxSizeBytes) :
         LET b == Buf(minQ, EffectiveOpts(args, Some(variants[vi])), s)
         IN  /\ Encoded("min", b, args.maxSizeBytes)
             /\ IF ~Fits(s, args.maxSizeBytes)
                THEN /\ minOver' = minOver + 1
                     /\ memo' = {}
                     /\ found' = found
                     /\ NextIteration(bestFit)
                ELSE /\ minOver' = minOver
                     /\ memo' = IF LoopCondCli(0, minQ, baseQ)
                                THEN memo \cup {<<EncKey(minQ), s>>} ELSE {}
                     /\ SearchStepCli(minQ, baseQ, b, minQ, 0)
    /\ UNCHANGED <<tool, encoder, argv, args, bestClarity, probes, baseSizes>>
    /\ UNCHANGED <<source, run, first>>
    /\ BatchUnchanged
    /\ WebUnchanged

\* One pass of the loop body: const b = await encodeAtQuality(inputPath, args, mid, v).
Probe ==
    /\ tool = "cli" /\ pc = "search"
    /\ LET mid == (lo + hi) \div 2
       IN  \E s \in EncSizes(mid, EffectiveOpts(args, Some(variants[vi])), args.maxSizeBytes) :
             LET b == Buf(mid, EffectiveOpts(args, Some(variants[vi])), s)
                 fit == Fits(s, args.maxSizeBytes)
                 l == IF fit THEN mid ELSE lo
                 h == IF fit THEN hi ELSE mid
             IN  /\ Encoded("probe", b, args.maxSizeBytes)
                 /\ probes' = probes + 1
                 /\ memo' = IF LoopCondCli(i + 1, l, h)
                            THEN MemoKeep(memo \cup {<<EncKey(mid), s>>}, l, h) ELSE {}
                 /\ SearchStepCli(l, h, IF fit THEN b ELSE best[1],
                                  IF fit THEN mid ELSE bestQ, i + 1)
    /\ UNCHANGED <<tool, encoder, argv, args, bestClarity, baseSizes, minOver>>
    /\ UNCHANGED <<source, run, first>>
    /\ BatchUnchanged
    /\ WebUnchanged

-----------------------------------------------------------------------------
(* The web tool *)

\* clamp(n, min, max)
clamp(n, mn, mx) == Max(mn, Min(mx, n))

\* const baseQuality, minQuality of encodeCanvasFitUnder.
baseQuality == clamp(opts[1].baseQuality, Pct(10), Pct(100))
minQuality == clamp(opts[1].minQuality, Pct(10), Pct(100))

\* The for condition of the binary search: i < 10 && hi - lo > 0.02.
MaxProbesWeb == 10
TolWeb == 2 * 1024
LoopCondWeb(n, l, h) == n < MaxProbesWeb /\ h - l > TolWeb

CliUnchanged == UNCHANGED <<argv, args, vi, atBase, bestFit, bestClarity, minOver>>

\* qualityRange input handler: state.quality = clamp(Number(value) / 100, 0.1, 1.0).
QualityInput(raw) ==
    /\ tool = "web" /\ pc = "idle"
    /\ log' = log
    /\ st' = [st EXCEPT !.quality = clamp(Pct(raw), Pct(10), Pct(100))]
    /\ UNCHANGED <<tool, pc, encoder, memo, caller, opts, lo, hi, best, bestQ, i,
                   tried, result, calls, probes, fitSeen, lastEnc, baseSizes>>
    /\ UNCHANGED <<source, canvas, item, run, first, found>>
    /\ BatchUnchanged
    /\ CliUnchanged

\* imgMinQuality change handler: state.imgMinQuality = clamp(Number(value), 0.1, 0.95).
\* The value of a type=number input is a valid number or "", and Number("") is 0.
ImgMinQualityChange(raw) ==
    /\ tool = "web" /\ pc = "idle"
    /\ log' = log
    /\ st' = [st EXCEPT !.imgMinQuality = clamp(Pct(raw), Pct(10), Pct(95))]
    /\ UNCHANGED <<tool, pc, encoder, memo, caller, opts, lo, hi, best, bestQ, i,
                   tried, result, calls, probes, fitSeen, lastEnc, baseSizes>>
    /\ UNCHANGED <<source, canvas, item, run, first, found>>
    /\ BatchUnchanged
    /\ CliUnchanged

\* state.imgTargetKB is a number of kilobytes that need not be whole (the input
\* takes 50.3): it is counted in tenths of a kilobyte.
Kb(n) == n * 10

\* Math.floor(kb * 1024) for kb in tenths of a kilobyte.
FloorKbTimes1024(kb) == (kb * 1024) \div 10

\* imgUscisPreset change handler.
ImgUscisPresetChange(checked) ==
    /\ tool = "web" /\ pc = "idle"
    /\ log' = log
    /\ st' = [st EXCEPT !.imgUscisPreset = checked,
                        !.imgTargetKB = IF checked THEN Kb(600) ELSE @]
    /\ UNCHANGED <<tool, pc, encoder, memo, caller, opts, lo, hi, best, bestQ, i,
                   tried, result, calls, probes, fitSeen, lastEnc, baseSizes>>
    /\ UNCHANGED <<source, canvas, item, run, first, found>>
    /\ BatchUnchanged
    /\ CliUnchanged

\* Mutant: the handler without the if that unchecks the preset.
ImgTargetKBChangeKeepsPreset(raw) ==
    /\ tool = "web" /\ pc = "idle"
    /\ log' = log
    /\ st' = [st EXCEPT !.imgTargetKB = clamp(raw, Kb(50), Kb(6000))]
    /\ UNCHANGED <<tool, pc, encoder, memo, caller, opts, lo, hi, best, bestQ, i,
                   tried, result, calls, probes, fitSeen, lastEnc, baseSizes>>
    /\ UNCHANGED <<source, canvas, item, run, first, found>>
    /\ BatchUnchanged
    /\ CliUnchanged

\* imgTargetKB change handler.
ImgTargetKBChange(raw) ==
    /\ tool = "web" /\ pc = "idle"
    /\ log' = log
    /\ LET kb == clamp(raw, Kb(50), Kb(6000))
       IN  st' = [st EXCEPT !.imgTargetKB = kb,
                            !.imgUscisPreset = IF kb # Kb(600) THEN FALSE ELSE @]
    /\ UNCHANGED <<tool, pc, encoder, memo, caller, opts, lo, hi, best, bestQ, i,
                   tried, result, calls, probes, fitSeen, lastEnc, baseSizes>>
    /\ UNCHANGED <<source, canvas, item, run, first, found>>
    /\ BatchUnchanged
    /\ CliUnchanged

\* compressToggle and fitToggle change handlers.
CompressToggleChange(checked) ==
    /\ tool = "web" /\ pc = "idle"
    /\ log' = log
    /\ st' = [st EXCEPT !.compress = checked]
    /\ UNCHANGED <<tool, pc, encoder, memo, caller, opts, lo, hi, best, bestQ, i,
                   tried, result, calls, probes, fitSeen, lastEnc, baseSizes>>
    /\ UNCHANGED <<source, canvas, item, run, first, found>>
    /\ BatchUnchanged
    /\ CliUnchanged

FitToggleChange(checked) ==
    /\ tool = "web" /\ pc = "idle"
    /\ log' = log
    /\ st' = [st EXCEPT !.fitUnderMax = checked]
    /\ UNCHANGED <<tool, pc, encoder, memo, caller, opts, lo, hi, best, bestQ, i,
                   tried, result, calls, probes, fitSeen, lastEnc, baseSizes>>
    /\ UNCHANGED <<source, canvas, item, run, first, found>>
    /\ BatchUnchanged
    /\ CliUnchanged

\* imageFileToCanvas: canvas.width = Math.floor(w), canvas.height = Math.floor(h),
\* of a bitmap whose width and height are whole numbers of pixels.
imageFileToCanvas(d) == Dims(d.width, d.height)

\* compressImages up to its call of encodeCanvasFitUnder for an image.
compressImages ==
    /\ tool = "web" /\ pc = "idle"
    /\ log' = log
    /\ caller' = "compressImages"
    /\ opts' = Some([targetBytes |-> Some(IF st.imgUscisPreset THEN 600 * 1024
                                          ELSE FloorKbTimes1024(st.imgTargetKB)),
                     baseQuality |-> clamp(st.quality, Pct(10), Pct(100)),
                     minQuality |-> clamp(st.imgMinQuality, Pct(10), Pct(100))])
    /\ pc' = "fit"
    /\ UNCHANGED <<tool, encoder, memo, st, lo, hi, best, bestQ, i,
                   tried, result, calls, probes, fitSeen, lastEnc, baseSizes>>
    /\ canvas' = Some(imageFileToCanvas(source))
    /\ item' = Some(imageFileToCanvas(source))
    /\ UNCHANGED <<source, run, first, found>>
    /\ BatchUnchanged
    /\ CliUnchanged

\* encodeCanvasSmart with state.compress off: one encode at the clamped quality.
encodeCanvasSmartPlain ==
    /\ tool = "web" /\ pc = "idle"
    /\ ~st.compress
    /\ caller' = "encodeCanvasSmart"
    /\ LET q == clamp(st.quality, Pct(10), Pct(100))
       IN  \E s \in EncSizes(q, Null, Null) :
             LET b == canvasToJpegBlob(source, q, s)
             IN  /\ result' = Some([blob |-> b, usedQuality |-> q, tried |-> 1,
                                    pass |-> TRUE])
                 /\ Encoded("plain", b, Null)
    /\ pc' = "done"
    /\ UNCHANGED <<tool, encoder, memo, st, opts, lo, hi, best, bestQ, i, tried, probes,
                   baseSizes>>
    /\ canvas' = Some(source)
    /\ UNCHANGED <<source, item, run, first, found>>
    /\ BatchUnchanged
    /\ CliUnchanged

\* encodeCanvasSmart with state.compress on, up to its call of encodeCanvasFitUnder.
encodeCanvasSmart ==
    /\ tool = "web" /\ pc = "idle"
    /\ log' = log
    /\ st.compress
    /\ caller' = "encodeCanvasSmart"
    /\ opts' = Some([targetBytes |-> IF st.fitUnderMax
                                     THEN Some(st.maxSizeMB * 1024 * 1024) ELSE Null,
                     baseQuality |-> clamp(st.quality, Pct(10), Pct(100)),
                     minQuality |-> Pct(55)])
    /\ pc' = "fit"
    /\ UNCHANGED <<tool, encoder, memo, st, lo, hi, best, bestQ, i,
                   tried, result, calls, probes, fitSeen, lastEnc, baseSizes>>
    /\ canvas' = Some(source)
    /\ UNCHANGED <<source, item, run, first, found>>
    /\ BatchUnchanged
    /\ CliUnchanged

\* encodeCanvasFitUnder, if (!targetBytes): one shot at baseQuality.
FitNoTarget ==
    /\ tool = "web" /\ pc = "fit"
    /\ Falsy(opts[1].targetBytes)
    /\ \E s \in EncSizes(baseQuality, Null, opts[1].targetBytes) :
         LET b == canvasToJpegBlob(canvas[1], baseQuality, s)
         IN  /\ result' = Some([blob |-> b, usedQuality |-> baseQuality, tried |-> 1,
                                pass |-> TRUE])
             /\ Encoded("base", b, opts[1].targetBytes)
    /\ pc' = "done"
    /\ UNCHANGED <<tool, encoder, memo, st, caller, opts, lo, hi, best, bestQ, i,
                   tried, probes, baseSizes>>
    /\ UNCHANGED <<source, canvas, item, run, first, found>>
    /\ BatchUnchanged
    /\ CliUnchanged

\* The block "If already <= target at baseQuality, keep it."
FitBase ==
    /\ tool = "web" /\ pc = "fit"
    /\ ~Falsy(opts[1].targetBytes)
    /\ \E s \in EncSizes(baseQuality, Null, opts[1].targetBytes) :
         LET b == canvasToJpegBlob(canvas[1], baseQuality, s)
         IN  /\ Encoded("base", b, opts[1].targetBytes)
             /\ baseSizes' = Append(baseSizes, s)
             /\ IF Fits(s, opts[1].targetBytes)
                THEN /\ result' = Some([blob |-> b, usedQuality |-> baseQuality,
                                        tried |-> 1, pass |-> TRUE])
                     /\ pc' = "done"
                     /\ memo' = {}
                ELSE /\ result' = result
                     /\ pc' = "fitMin"
                     /\ memo' = {<<EncKey(baseQuality), s>>}
    /\ UNCHANGED <<tool, encoder, st, caller, opts, lo, hi, best, bestQ, i,
                   tried, probes>>
    /\ UNCHANGED <<source, canvas, item, run, first, found>>
    /\ BatchUnchanged
    /\ CliUnchanged

\* The binary search loop of encodeCanvasFitUnder with locals l, h, bst, bq, counter
\* n and t encodes tried: the next probe, or the return after the loop.
SearchStepWeb(l, h, bst, bq, n, t) ==
    IF LoopCondWeb(n, l, h)
    THEN /\ lo' = l /\ hi' = h /\ best' = Some(bst) /\ bestQ' = bq /\ i' = n
         /\ tried' = t
         /\ pc' = "fitSearch"
         /\ result' = result
         /\ found' = found
    ELSE /\ found' = Some([lo |-> l, hi |-> h, best |-> bst, bestQ |-> bq, i |-> n])
         /\ lo' = 0 /\ hi' = 0 /\ best' = Null /\ bestQ' = 0 /\ i' = 0
         /\ tried' = 0
         /\ pc' = "done"
         /\ result' = Some([blob |-> bst, usedQuality |-> bq, tried |-> t,
                            pass |-> TRUE])

\* Mutant: the failing result reported at baseQuality.
FitMinFailAtBase(b) == [blob |-> b, usedQuality |-> baseQuality, tried |-> 2, pass |-> FALSE]

\* "If even minQuality can't reach the target, return "best clarity" at minQuality
\* (fail)": the result for the min-quality blob b.
FitMinFail(b) == [blob |-> b, usedQuality |-> minQuality, tried |-> 2, pass |-> FALSE]

\* let bestBlob = await canvasToJpegBlob(canvas, minQuality) and what follows.
FitMin ==
    /\ tool = "web" /\ pc = "fitMin"
    /\ \E s \in EncSizes(minQuality, Null, opts[1].targetBytes) :
         LET b == canvasToJpegBlob(canvas[1], minQuality, s)
         IN  /\ Encoded("min", b, opts[1].targetBytes)
             /\ memo' = IF Fits(s, opts[1].targetBytes)
                           /\ LoopCondWeb(0, minQuality, baseQuality)
                        THEN memo \cup {<<EncKey(minQuality), s>>} ELSE {}
             /\ IF ~Fits(s, opts[1].targetBytes)
                THEN /\ result' = Some(FitMinFail(b))
                     /\ pc' = "done"
                     /\ UNCHANGED <<lo, hi, best, bestQ, i, tried, found>>
                ELSE SearchStepWeb(minQuality, baseQuality, b, minQuality, 0, 2)
    /\ probes' = 0
    /\ UNCHANGED <<tool, encoder, st, caller, opts, baseSizes>>
    /\ UNCHANGED <<source, canvas, item, run, first>>
    /\ BatchUnchanged
    /\ CliUnchanged

\* One pass of the loop body: const b = await canvasToJpegBlob(canvas, mid).
FitProbe ==
    /\ tool = "web" /\ pc = "fitSearch"
    /\ LET mid == (lo + hi) \div 2
       IN  \E s \in EncSizes(mid, Null, opts[1].targetBytes) :
             LET b == canvasToJpegBlob(canvas[1], mid, s)
                 fit == Fits(s, opts[1].targetBytes)
                 l == IF fit THEN mid ELSE lo
                 h == IF fit THEN hi ELSE mid
             IN  /\ Encoded("probe", b, opts[1].targetBytes)
                 /\ memo' = IF LoopCondWeb(i + 1, l, h)
                            THEN MemoKeep(memo \cup {<<EncKey(mid), s>>}, l, h) ELSE {}
                 /\ SearchStepWeb(l, h, IF fit THEN b ELSE best[1],
                                  IF fit THEN mid ELSE bestQ, i + 1, tried + 1)
    /\ probes' = probes + 1
    /\ UNCHANGED <<tool, encoder, st, caller, opts, baseSizes>>
    /\ UNCHANGED <<source, canvas, item, run, first>>
    /\ BatchUnchanged
    /\ CliUnchanged

-----------------------------------------------------------------------------
(* Inputs and initial states *)

Toggles ==
    [subsample : {"4:4:4", "4:2:0"}, progressive : BOOLEAN, stripMetadata : BOOLEAN]

DefaultToggles == [subsample |-> "4:4:4", progressive |-> FALSE, stripMetadata |-> TRUE]

Argv(q, mq, size, t) ==
    [quality |-> q, minQuality |-> mq, size |-> size, subsample |-> t.subsample,
     progressive |-> t.progressive, stripMetadata |-> t.stripMetadata,
     overwrite |-> FALSE]

\* The decimal digits of n.
RECURSIVE Decimal(_)
Decimal(n) ==
    IF n < 10 THEN <<DigitChars[n + 1]>>
    ELSE Decimal(n \div 10) \o <<DigitChars[(n % 10) + 1]>>

\* The characters of a unit suffix.
Chars(unit) ==
    CASE unit = "" -> <<>>
      [] unit = "k" -> <<"k">>
      [] unit = "kb" -> <<"k", "b">>
      [] unit = "KB" -> <<"K", "B">>
      [] unit = "Kb" -> <<"K", "b">>
      [] unit = "mb" -> <<"m", "b">>
      [] unit = "MB" -> <<"M", "B">>
      [] unit = "gb" -> <<"g", "b">>
      [] unit = "Gb" -> <<"G", "b">>
      [] unit = "xb" -> <<"x", "b">>
      [] unit = "b" -> <<"b">>

\* The value of --max-size / --fit-under written as a number and a unit.
Size(n, unit) == Some(Decimal(n) \o Chars(unit))

\* Scenarios A, B and C of the specification (stub encoder, --quality 0.85,
\* --min-quality 0.55) under every setting of the toggles, and the widest
\* fidelity range the clamp allows (--quality 1.2 --min-quality 0.05).
StubRuns ==
    {[encoder |-> "stub", argv |-> Argv(Num(Pct(85)), Num(Pct(55)), size, t)] :
        size \in {Null, Size(600000, ""), Size(100, "")}, t \in Toggles}
    \cup
    {[encoder |-> "stub", argv |-> Argv(Num(Pct(120)), Num(Pct(5)), size, DefaultToggles)] :
        size \in {Size(600000, ""), Size(600, "kb"), Size(100, "")}}

\* Any encoder, on fidelity ranges of two probes (0.60 / 0.55), one (0.60 / 0.57),
\* none (0.60 / 0.60) and an inverted one (0.57 / 0.60).
FreeRuns ==
    {[encoder |-> "free", argv |-> Argv(Num(Pct(q[1])), Num(Pct(q[2])), size, t)] :
        q \in {<<60, 57>>, <<60, 60>>, <<57, 60>>},
        size \in {Null, Size(0, "")}, t \in Toggles}
    \cup
    {[encoder |-> "free", argv |-> Argv(Num(Pct(q[1])), Num(Pct(q[2])), Size(600, "kb"),
                                        DefaultToggles)] :
        q \in {<<60, 55>>, <<60, 57>>, <<60, 60>>, <<57, 60>>}}

\* The value of --max-size / --fit-under written with a decimal point.
SizeFrac(n, frac, unit) == Some(Decimal(n) \o <<".">> \o frac \o Chars(unit))

\* The stub encoder against targets between its sizes at 0.55 and at 0.85: the
\* highest fitting fidelity is 0.55, 0.56, 0.70 and just under 0.85.
ThresholdRuns ==
    {[encoder |-> "stub", argv |-> Argv(Num(Pct(85)), Num(Pct(55)), Size(n, ""),
                                        DefaultToggles)] :
        n \in {550000, 560000, 700000, 849999}}

\* Sizes that come to zero bytes, and --max-size= (the empty string).
ZeroRuns ==
    {[encoder |-> "free", argv |-> Argv(Num(Pct(60)), Num(Pct(60)), size, DefaultToggles)] :
        size \in {Size(0, "kb"), SizeFrac(0, <<"0", "0", "0", "1">>, "kb"), Some(<<>>)}}

\* Command lines parseArgs rejects.
RejectedRuns ==
    {[encoder |-> "stub", argv |-> a] :
        a \in {Argv(NotFinite, Num(Pct(55)), Null, DefaultToggles),
               Argv(Num(Pct(85)), NotFinite, Size(600, "kb"), DefaultToggles),
               Argv(Num(Pct(85)), Num(Pct(55)), Size(600, "k"), DefaultToggles),
               [Argv(Num(Pct(85)), Num(Pct(55)), Null, DefaultToggles)
                   EXCEPT !.subsample = "4:1:1"],
               [Argv(Num(Pct(85)), Num(Pct(55)), Size(6, "mb"), DefaultToggles)
                   EXCEPT !.subsample = "420"]}}

CliRuns == StubRuns \cup ThresholdRuns \cup FreeRuns \cup ZeroRuns \cup RejectedRuns

\* const state of the web tool, its settings.
state ==
    [quality |-> Pct(92), imgMinQuality |-> Pct(55), imgTargetKB |-> Kb(600),
     imgUscisPreset |-> TRUE, compress |-> TRUE, fitUnderMax |-> TRUE, maxSizeMB |-> 6]

\* Input images: a 12 megapixel photograph, a small square picture.
Sources == {Dims(4000, 3000), Dims(600, 600)}

NoArgs ==
    [quality |-> 0, minQuality |-> 0, subsample |-> "", progressive |-> FALSE,
     stripMetadata |-> FALSE, maxSizeBytes |-> Null, overwrite |-> FALSE]

\* No loop over inputs or images is under way.
NoBatch ==
    /\ inputs = <<>> /\ existed = {} /\ cur = 0 /\ ok = 0 /\ fail = 0 /\ exitCode = 0 /\ files = {}
    /\ imgFiles = <<>> /\ busy = FALSE /\ toast = "" /\ writes = <<>> /\ events = <<>>

InitLocals ==
    /\ memo = {} /\ vi = 1 /\ atBase = Null /\ lo = 0 /\ hi = 0 /\ best = Null
    /\ bestQ = 0 /\ i = 0 /\ tried = 0 /\ bestFit = Null /\ bestClarity = Null
    /\ result = Null /\ calls = 0 /\ probes = 0 /\ fitSeen = FALSE /\ lastEnc = Null
    /\ baseSizes = <<>> /\ minOver = 0
    /\ source \in Sources /\ canvas = Null /\ item = Null
    /\ log = <<>> /\ first = Null /\ found = Null
    /\ mode = "individual" /\ pageCount = 0 /\ pages = 0 /\ running = <<>>
    /\ estimateToken = 0 /\ estimates = {} /\ combinedPlan = [kind |-> "empty", by |-> 0]

InitCli ==
    /\ tool = "cli" /\ pc = "parseArgs" /\ run = 0
    /\ \E r \in CliRuns : encoder = r.encoder /\ argv = r.argv
    /\ args = NoArgs
    /\ st = state /\ caller = "" /\ opts = Null
    /\ InitLocals
    /\ NoBatch

InitWeb ==
    /\ tool = "web" /\ pc = "idle" /\ run = 0
    /\ encoder \in {"stub", "free"}
    /\ argv = Argv(Num(0), Num(0), Null, DefaultToggles) /\ args = NoArgs
    /\ st = state /\ caller = "" /\ opts = Null
    /\ InitLocals
    /\ NoBatch

Init == InitCli \/ InitWeb

QualityRaws == {5, 10, 60, 85, 120}
MinQualityRaws == {0, 57}
TargetKBRaws == {Kb(10), Kb(600), Kb(50) + 3}

Next ==
    \/ parseArgs
    \/ CwtNoTarget
    \/ EncodeBase
    \/ EncodeMin
    \/ Probe
    \/ \E raw \in QualityRaws : QualityInput(raw)
    \/ \E raw \in MinQualityRaws : ImgMinQualityChange(raw)
    \/ \E checked \in BOOLEAN : ImgUscisPresetChange(checked)
    \/ \E raw \in TargetKBRaws : ImgTargetKBChange(raw)
    \/ \E checked \in BOOLEAN : CompressToggleChange(checked)
    \/ \E checked \in BOOLEAN : FitToggleChange(checked)
    \/ compressImages
    \/ encodeCanvasSmartPlain
    \/ encodeCanvasSmart
    \/ FitNoTarget
    \/ FitBase
    \/ FitMin
    \/ FitProbe

Spec == Init /\ [][Next]_vars

-----------------------------------------------------------------------------
(* The loops over inputs: main of the batch tool, compressImages of the web tool *)

\* Bound: the number of inputs of a run, of images of a batch.
MaxInputs == 3

\* Input paths: a directory and a base name; the extension is .jpg.
Paths == {[dir |-> "a", base |-> "x"], [dir |-> "b", base |-> "x"],
          [dir |-> "a", base |-> "y"]}

\* outputPathFor: path.join(outDir, base + suffix + ".jpg"), one file of outDir
\* per base name.
outputPathFor(inputPath) == inputPath.base

\* compressWithTarget / encodeCanvasFitUnder and the calls around it, as the loop
\* sees them: a result with pass true or false, or an exception from reading
\* (fs.stat(inputPath), imageFileToCanvas), encoding or writing.
Throws == {"readThrows", "encodeThrows", "writeThrows"}
CliOutcomes == Throws \cup {"pass", "nopass"}
WebOutcomes == {"readThrows", "encodeThrows", "pass", "nopass"}

\* Mutant: only a result that passed counts as ok.
OkAfterPassOnly(n, pass) == IF pass THEN n + 1 ELSE n

\* ok++ after the [ok] line of a result, pass being its pass field.
OkAfter(n, pass) == n + 1

\* Mutant: after an exception the loop passes over the next input.
AfterCatchSkipsNext(n) == Min(n + 1, Len(inputs))

\* Mutant: the exception ends the loop, as if caught outside it.
AfterCatchLoopEnds(n) == Len(inputs)

\* The catch of main is inside the loop body: after it the for loop goes on with
\* the input after number n.
AfterCatch(n) == n

SearchUnchanged ==
    UNCHANGED <<encoder, memo, argv, args, st, caller, opts, vi, atBase, lo, hi, best,
                bestQ, i, tried, bestFit, bestClarity, result, calls, probes, fitSeen,
                lastEnc, baseSizes, minOver, source, canvas, item, run, log, first,
                found>>

\* One pass of the body of for (const inputPath of inputs) in main.
MainIteration ==
    /\ tool = "cli" /\ pc = "main" /\ cur < Len(inputs)
    /\ LET n == cur + 1
           outPath == outputPathFor(inputs[n])
       IN  IF ~args.overwrite /\ outPath \in files
           THEN /\ events' = Append(events, "skip")
                /\ cur' = n
                /\ UNCHANGED <<ok, fail, files, writes>>
           ELSE \E ev \in CliOutcomes :
                  /\ events' = Append(events, ev)
                  /\ IF ev \in Throws
                     THEN /\ fail' = fail + 1
                          /\ cur' = AfterCatch(n)
                          /\ files' \in IF ev = "writeThrows"
                                        THEN {files, files \cup {outPath}} ELSE {files}
                          /\ UNCHANGED <<ok, writes>>
                     ELSE /\ files' = files \cup {outPath}
                          /\ writes' = Append(writes, [input |-> n, path |-> outPath,
                                                       pass |-> ev = "pass"])
                          /\ ok' = OkAfter(ok, ev = "pass")
                          /\ cur' = n
                          /\ fail' = fail
    /\ UNCHANGED <<tool, pc, inputs, existed, exitCode, imgFiles, busy, toast>>
    /\ SearchUnchanged
    /\ UiUnchanged

\* After the loop of main: if (fail) process.exitCode = 2.
MainExit ==
    /\ tool = "cli" /\ pc = "main" /\ cur = Len(inputs)
    /\ exitCode' = IF fail # 0 THEN 2 ELSE exitCode
    /\ pc' = "exit"
    /\ UNCHANGED <<tool, inputs, existed, cur, ok, fail, files, imgFiles, busy, toast, writes,
                   events>>
    /\ SearchUnchanged
    /\ UiUnchanged

\* compressImages up to the loop: return if there are no items or state.busy,
\* else setBusy(true).
compressImagesEnter ==
    /\ tool = "web" /\ pc = "idle"
    /\ imgFiles # <<>> /\ ~busy
    /\ busy' = TRUE
    /\ cur' = 0
    /\ pc' = "compressing"
    /\ UNCHANGED <<tool, inputs, existed, ok, fail, exitCode, files, imgFiles, toast, writes,
                   events>>
    /\ SearchUnchanged
    /\ UiUnchanged

\* One pass of the loop body of compressImages. The try encloses the whole loop:
\* an exception goes to the catch (error toast) and the finally (setBusy(false)).
compressImagesItem ==
    /\ tool = "web" /\ pc = "compressing" /\ cur < Len(imgFiles)
    /\ \E ev \in WebOutcomes :
         /\ events' = Append(events, ev)
         /\ IF ev \in Throws
            THEN /\ imgFiles' = IF ev = "readThrows" THEN imgFiles
                                ELSE [imgFiles EXCEPT ![cur + 1].width = source.width,
                                                      ![cur + 1].height = source.height]
                 /\ toast' = "error"
                 /\ busy' = FALSE
                 /\ pc' = "finished"
                 /\ cur' = cur
            ELSE /\ imgFiles' = [imgFiles EXCEPT
                                    ![cur + 1].width = source.width,
                                    ![cur + 1].height = source.height,
                                    ![cur + 1].compressed = Some([pass |-> ev = "pass"])]
                 /\ cur' = cur + 1
                 /\ UNCHANGED <<toast, busy, pc>>
    /\ UNCHANGED <<tool, inputs, existed, ok, fail, exitCode, files, writes>>
    /\ SearchUnchanged
    /\ UiUnchanged

\* After the loop of compressImages: the success toast, then the finally.
compressImagesDone ==
    /\ tool = "web" /\ pc = "compressing" /\ cur = Len(imgFiles)
    /\ toast' = "success"
    /\ busy' = FALSE
    /\ pc' = "finished"
    /\ UNCHANGED <<tool, inputs, existed, cur, ok, fail, exitCode, files, imgFiles, writes,
                   events>>
    /\ SearchUnchanged
    /\ UiUnchanged

\* Sequences of 1..MaxInputs elements of S.
SeqUpTo(S) == UNION {[1..n -> S] : n \in 1..MaxInputs}

\* An item of state.imgFiles as addImages pushes it.
NewItem == [width |-> 0, height |-> 0, compressed |-> Null]

\* main as it enters its loop, the args parsed and the inputs listed; the web
\* tool with images added.
InitBatch ==
    /\ run = 0
    /\ encoder = "stub"
    /\ argv = Argv(Num(Pct(85)), Num(Pct(55)), Size(600, "kb"), DefaultToggles)
    /\ st = state /\ caller = "" /\ opts = Null
    /\ InitLocals
    /\ cur = 0 /\ ok = 0 /\ fail = 0 /\ exitCode = 0
    /\ busy = FALSE /\ toast = "" /\ writes = <<>> /\ events = <<>>
    /\ \/ /\ tool = "cli" /\ pc = "main"
          /\ \E o \in BOOLEAN :
               args = [quality |-> Pct(85), minQuality |-> Pct(55),
                       subsample |-> "4:4:4", progressive |-> FALSE,
                       stripMetadata |-> TRUE, maxSizeBytes |-> Some(600 * 1024),
                       overwrite |-> o]
          /\ inputs \in SeqUpTo(Paths)
          /\ files \in {{}, {"x"}} /\ existed = files
          /\ imgFiles = <<>>
       \/ /\ tool = "web" /\ pc = "idle"
          /\ args = NoArgs
          /\ inputs = <<>> /\ files = {} /\ existed = {}
          /\ imgFiles \in SeqUpTo({NewItem})

NextBatch ==
    \/ MainIteration
    \/ MainExit
    \/ compressImagesEnter
    \/ compressImagesItem
    \/ compressImagesDone

SpecBatch == InitBatch /\ [][NextBatch]_vars

-----------------------------------------------------------------------------
(* Two calls on the same input *)

\* Mutant: the iterator over variants shared by the calls, not restarted.
FreshLocalsSharedIterator ==
    /\ vi' = vi /\ bestFit' = Null /\ bestClarity' = Null
    /\ CliLocalsReset
    /\ tried' = 0 /\ result' = Null /\ memo' = {}

\* The locals of a call of compressWithTarget / encodeCanvasFitUnder as it
\* starts: let bestFit = null, let bestClarity = null, for (const v of variants)
\* from the first variant; nothing is kept from an earlier call.
FreshLocals ==
    /\ vi' = 1 /\ bestFit' = Null /\ bestClarity' = Null
    /\ CliLocalsReset
    /\ tried' = 0 /\ result' = Null /\ memo' = {}

\* compressWithTarget(inputPath, args) / encodeCanvasFitUnder(canvas, opts)
\* called again with the arguments of the call that has returned.
SecondCall ==
    /\ run = 1 /\ pc = "done" /\ result # Null
    /\ tool = "web" => caller = "compressImages"
    /\ first' = Some([log |-> log, result |-> result[1]])
    /\ found' = Null
    /\ run' = 2
    /\ log' = <<>>
    /\ pc' = IF tool = "cli" THEN "start" ELSE "fit"
    /\ FreshLocals
    /\ calls' = 0 /\ probes' = 0 /\ fitSeen' = FALSE /\ lastEnc' = Null
    /\ baseSizes' = <<>> /\ minOver' = 0
    /\ UNCHANGED <<tool, encoder, argv, args, st, caller, opts, source, canvas, item>>
    /\ BatchUnchanged

\* Command lines of the runs that are made twice: Scenarios A, B and C, the
\* user's toggles without a target, and any encoder on a range without probes.
TwiceRuns ==
    {[encoder |-> "stub", argv |-> Argv(Num(Pct(85)), Num(Pct(55)), size, DefaultToggles)] :
        size \in {Null, Size(600000, ""), Size(100, "")}}
    \cup
    {[encoder |-> "free", argv |-> Argv(Num(Pct(60)), Num(Pct(60)), size, DefaultToggles)] :
        size \in {Null, Size(600, "kb")}}

InitTwice ==
    /\ run = 1
    /\ \/ /\ tool = "cli" /\ pc = "parseArgs"
          /\ \E r \in TwiceRuns : encoder = r.encoder /\ argv = r.argv
       \/ /\ tool = "web" /\ pc = "idle"
          /\ encoder \in {"stub", "free"}
          /\ argv = Argv(Num(0), Num(0), Null, DefaultToggles)
    /\ args = NoArgs
    /\ st = state /\ caller = "" /\ opts = Null
    /\ InitLocals
    /\ NoBatch

NextTwice ==
    \/ parseArgs
    \/ CwtNoTarget
    \/ EncodeBase
    \/ EncodeMin
    \/ Probe
    \/ QualityInput(60)
    \/ ImgMinQualityChange(57)
    \/ compressImages
    \/ FitBase
    \/ FitMin
    \/ FitProbe
    \/ SecondCall

SpecTwice == InitTwice /\ [][NextTwice]_vars

-----------------------------------------------------------------------------
(* parseArgs on size expressions *)

\* Size expressions: optional white space, an integer part, a fraction, a unit,
\* optional white space, every part possibly missing or malformed.
Pads == {<<>>, <<" ">>}
IntParts == {<<>>, <<"0">>, <<"1">>, <<"6", "0", "0">>, <<"-", "5">>}
FracParts == {<<>>, <<".">>, <<".", "1">>, <<".", "0", "0", "1">>}
UnitParts ==
    {Chars(u) : u \in {"", "k", "kb", "KB", "Kb", "mb", "MB", "gb", "Gb", "xb", "b"}}
    \cup {<<" ", "k", "b">>, <<"e", "3">>}

\* 600gb is more than TLC's integers hold.
SizeStrings ==
    {pl \o n \o f \o u \o pr :
        pl \in Pads, pr \in Pads, f \in FracParts,
        n \in IntParts, u \in UnitParts} \ 
    {pl \o <<"6", "0", "0">> \o f \o u \o pr :
        pl \in Pads, pr \in Pads, f \in FracParts,
        u \in {Chars("gb"), Chars("Gb")}}

InitParse ==
    /\ tool = "cli" /\ pc = "parseArgs" /\ run = 0
    /\ encoder = "stub"
    /\ \E str \in SizeStrings :
         argv = Argv(Num(Pct(85)), Num(Pct(55)), Some(str), DefaultToggles)
    /\ args = NoArgs
    /\ st = state /\ caller = "" /\ opts = Null
    /\ InitLocals
    /\ NoBatch

NextParse == parseArgs

SpecParse == InitParse /\ [][NextParse]_vars

-----------------------------------------------------------------------------
(* What the claims speak of *)

\* The target of the running search (null when there is none).
Target ==
    IF tool = "cli" THEN args.maxSizeBytes
    ELSE IF opts = Null THEN Null ELSE opts[1].targetBytes

\* compressWithTarget / encodeCanvasFitUnder has returned.
Returned == pc = "done" /\ result # Null /\ (tool = "web" => opts # Null)

TargetSet == IF Target = Null THEN FALSE ELSE Target[1] # 0

ResultSize == IF tool = "cli" THEN result[1].buf.size ELSE result[1].blob.size
ResultQ == IF tool = "cli" THEN result[1].buf.q ELSE result[1].blob.q

\* The fidelity the search starts from.
BaseFidelity ==
    IF tool = "cli" THEN Max(Pct(10), Min(Pct(100), argv.quality.val))
    ELSE opts[1].baseQuality

\* The command line of Scenarios A and B, but for the size.
ScenarioArgv(bytes) ==
    /\ tool = "cli" /\ encoder = "stub"
    /\ argv.quality = Num(Pct(85)) /\ argv.minQuality = Num(Pct(55))
    /\ argv.size = Size(bytes, "")

\* Index in the variant table of variant v.
VariantIndex(v) == CHOOSE k \in 1..Len(variants) : variants[k] = v

SeqMin(q) == CHOOSE m \in {q[k] : k \in 1..Len(q)} : \A k \in 1..Len(q) : m <= q[k]
FirstIndexOf(q, m) == CHOOSE k \in 1..Len(q) : q[k] = m /\ \A j \in 1..(k - 1) : q[j] # m

-----------------------------------------------------------------------------
(* C1: when compressWithTarget returns with a target set and some variant's    *)
(* binary search found a fit (base encode over the target, min encode within   *)
(* it, no earlier variant fitting), the result is pass = true with that        *)
(* variant, its search's buffer and fidelity, and no later variant was         *)
(* encoded; in Scenario A the result is pass = true, first variant,            *)
(* usedFidelity within 0.015 of 0.600.                                         *)
C1_FirstFitReturned ==
    (tool = "cli" /\ Returned /\ TargetSet) =>
        /\ bestFit # Null =>
              /\ result[1].pass
              /\ result[1].used = bestFit[1].used
              /\ result[1].usedQuality = bestFit[1].q
              /\ result[1].buf = bestFit[1].buf
              /\ Len(baseSizes) = VariantIndex(bestFit[1].used)
        /\ ScenarioArgv(600000) =>
              /\ result[1].pass
              /\ result[1].used = variants[1]
              /\ result[1].usedQuality >= Pct(60) - TolCli
              /\ result[1].usedQuality <= Pct(60) + TolCli

(* C2: whenever compressWithTarget returns pass = false, no encode of that     *)
(* call (base, min or probe, of any variant) had a size <= target.             *)
C2_FailMeansNothingFit ==
    (tool = "cli" /\ Returned /\ TargetSet /\ ~result[1].pass) => ~fitSeen

(* C3: with a target set, the result returned by compressWithTarget and by     *)
(* encodeCanvasFitUnder has pass = true exactly when its buffer's size is      *)
(* <= target.                                                                  *)
C3_PassIffWithinTarget ==
    (Returned /\ TargetSet) => (result[1].pass <=> ResultSize <= Target[1])

\* compressWithTarget returned pass = false with a buffer one byte over the target
\* although a binary search had found a fit.
C3_Witness ==
    /\ tool = "cli" /\ Returned /\ TargetSet
    /\ ~result[1].pass /\ ResultSize = Target[1] + 1
    /\ bestFit # Null

WebScenarioB ==
    /\ tool = "web" /\ encoder = "stub" /\ caller = "compressImages"
    /\ opts # Null
    /\ opts[1] = [targetBytes |-> Some(50 * 1024), baseQuality |-> Pct(85),
                  minQuality |-> Pct(55)]

C6_NoTargetOneEncode ==
    (Returned /\ ~TargetSet) =>
        /\ calls = 1
        /\ lastEnc[1].q = BaseFidelity
        /\ lastEnc[1].size = ResultSize
        /\ ResultQ = BaseFidelity
        /\ result[1].pass
        /\ result[1].usedQuality = BaseFidelity

\* compressWithTarget returned for --max-size 0, which it treats as no target.
C6_Witness ==
    /\ tool = "cli" /\ Returned /\ argv.size = Size(0, "")
    /\ calls = 1 /\ result[1].pass /\ ResultSize > Scale

(* C7 as claimed: with no target, the single encode of compressWithTarget uses  *)
(* the first variant of the table (4:4:4, baseline, metadata stripped) and     *)
(* reports it as used, whatever the user's toggles.                            *)
C7_NoTargetFirstVariant ==
    (tool = "cli" /\ Returned /\ ~TargetSet) =>
        (lastEnc[1].used = variants[1] /\ result[1].used = variants[1])

(* C7 amended: with no target, the single encode of compressWithTarget uses    *)
(* the user's --subsample / --progressive / --keep-metadata settings and       *)
(* reports them as used; that is the first variant of the table exactly when   *)
(* the three are at their defaults.                                            *)
C7_NoTargetUserToggles ==
    (tool = "cli" /\ Returned /\ ~TargetSet) =>
        /\ lastEnc[1].used.subsample =
              (IF argv.subsample \in {"4:4:4", "444"} THEN "4:4:4" ELSE "4:2:0")
        /\ lastEnc[1].used.progressive = argv.progressive
        /\ lastEnc[1].used.stripMetadata = argv.stripMetadata
        /\ result[1].used = lastEnc[1].used
        /\ result[1].buf.used = lastEnc[1].used
        /\ (result[1].used = variants[1]) <=>
              /\ argv.subsample \in {"4:4:4", "444"}
              /\ ~argv.progressive
              /\ argv.stripMetadata

\* compressWithTarget returned, no target, for --subsample 4:2:0 --progressive
\* --keep-metadata.
C7_Witness ==
    /\ tool = "cli" /\ Returned /\ ~TargetSet
    /\ argv.subsample = "4:2:0" /\ argv.progressive /\ ~argv.stripMetadata
    /\ result[1].used # variants[1]

(* C8: once the first base-fidelity encode is <= target, the call has returned  *)
(* after that one encoder call: compressWithTarget with pass = true,           *)
(* usedFidelity = baseFidelity and the first variant, encodeCanvasFitUnder     *)
(* with pass = true and usedQuality = baseQuality.                             *)
C8_ImmediateFit ==
    (TargetSet /\ Len(baseSizes) >= 1 /\ baseSizes[1] <= Target[1]) =>
        /\ Returned
        /\ calls = 1
        /\ result[1].pass
        /\ result[1].usedQuality = BaseFidelity
        /\ ResultQ = BaseFidelity
        /\ ResultSize = baseSizes[1]
        /\ tool = "cli" => result[1].used = variants[1]
        /\ tool = "web" => result[1].tried = 1

\* The first variant's base encode was exactly target bytes long.
C8_Witness ==
    /\ tool = "cli" /\ Returned /\ TargetSet
    /\ baseSizes = <<Target[1]>> /\ calls = 1

\* An encoder call of a running search is pending.
Searching == pc \in {"start", "atBase", "atMin", "search", "fit", "fitMin", "fitSearch"}

(* C9: a binary search makes at most 10 probe encodes beyond the base and min   *)
(* encodes, so one call makes at most 12 encoder calls per variant (4 x 12 in  *)
(* compressWithTarget, 12 in encodeCanvasFitUnder); a call that has not        *)
(* returned always has its next encoder call to make, so it terminates.        *)
C9_BoundedSearch ==
    /\ probes <= 10
    /\ i <= 10
    /\ Searching => ENABLED Next
    /\ tool = "cli" => calls <= (vi - 1) * 12 + 2 + probes
    /\ tool = "web" => calls <= 2 + probes
    /\ (tool = "web" /\ Returned /\ caller = "compressImages") => result[1].tried = calls

\* A search that took six probes.
C9_Witness == probes = 6 /\ pc = "done"

(* C10: every fidelity passed to the encoder by either tool lies in [0.1, 1.0]  *)
(* (and the percentage sharp is given in 10..100), whatever base and min       *)
(* fidelity were given, as long as parseArgs did not abort.                    *)
C10_EncoderFidelityInRange ==
    lastEnc # Null =>
        /\ lastEnc[1].q >= Pct(10)
        /\ lastEnc[1].q <= Pct(100)
        /\ jpegQuality(lastEnc[1].q) \in 10..100

\* An encode at fidelity 0.1 for --min-quality 0.05.
C10_Witness ==
    /\ tool = "cli" /\ argv.minQuality = Num(Pct(5))
    /\ lastEnc # Null /\ lastEnc[1].kind = "min" /\ lastEnc[1].q = Pct(10)

-----------------------------------------------------------------------------
\* The invocation was given a min fidelity above its base fidelity.
InvertedRange ==
    IF tool = "cli"
    THEN argv.quality.fin /\ argv.minQuality.fin
         /\ argv.minQuality.val > argv.quality.val
    ELSE IF opts = Null THEN FALSE ELSE opts[1].minQuality > opts[1].baseQuality

(* C11: an invocation whose min fidelity is greater than its base fidelity is  *)
(* rejected before any encode attempt: the batch tool aborts in parseArgs and  *)
(* the web tool makes no encoder call and returns no result.                   *)
C11_InvertedRangeRejected ==
    InvertedRange =>
        /\ calls = 0
        /\ result = Null
        /\ tool = "cli" => pc \in {"parseArgs", "abort"}

(* C12: the usedQuality of a result of compressWithTarget and of               *)
(* encodeCanvasFitUnder is never above the clamped base fidelity.              *)
C12_UsedFidelityAtMostBase ==
    Returned => result[1].usedQuality <= BaseFidelity

\* The variants of the table whose base-fidelity encode has been made.
TriedAtBase == {variants[k] : k \in 1..Len(baseSizes)}

(* C19: with a size target, the batch tool makes no encode below the base      *)
(* fidelity before the progressive variant and the 4:2:0 variant have been     *)
(* encoded at base fidelity.                                                   *)
C19_VariantsBeforeQuality ==
    (tool = "cli" /\ TargetSet /\ lastEnc # Null) =>
        IF lastEnc[1].q < baseQ
        THEN /\ \E v \in TriedAtBase : v.progressive
             /\ \E v \in TriedAtBase : v.subsample = "4:2:0"
        ELSE TRUE

(* C13: the target parseArgs hands to compressWithTarget is a positive integer *)
(* or, only when no size option was given, null: a size that comes to zero     *)
(* bytes or less is rejected before any encode attempt.                        *)
C13_ZeroTargetRejected ==
    tool = "cli" =>
        /\ args.maxSizeBytes # Null => args.maxSizeBytes[1] > 0
        /\ (argv.size # Null /\ pc \notin {"parseArgs", "abort"}) =>
               args.maxSizeBytes # Null

-----------------------------------------------------------------------------
\* What a size expression means, read off the text of the claim.

\* The string without the white space at its two ends.
Core(str) ==
    CHOOSE t \in {SubSeq(str, a, b) : a \in 1..(Len(str) + 1), b \in 0..Len(str)} :
        \E a \in 1..(Len(str) + 1), b \in 0..Len(str) :
            /\ t = SubSeq(str, a, b)
            /\ \A k \in (1..(a - 1)) \cup ((b + 1)..Len(str)) : str[k] \in WhiteSpace
            /\ t # <<>> => (t[1] \notin WhiteSpace /\ t[Len(t)] \notin WhiteSpace)
            /\ t = <<>> => \A k \in 1..Len(str) : str[k] \in WhiteSpace

BareDigits(t) == t # <<>> /\ \A k \in 1..Len(t) : t[k] \in {DigitChars[d] : d \in 1..10}

\* The unit a suffix spells in any letter case: 1 for kb, 2 for mb, 3 for gb, else 0.
UnitPower(u) ==
    IF Len(u) # 2 \/ u[2] \notin {"b", "B"} THEN 0
    ELSE IF u[1] \in {"k", "K"} THEN 1
    ELSE IF u[1] \in {"m", "M"} THEN 2
    ELSE IF u[1] \in {"g", "G"} THEN 3 ELSE 0

\* t is digits, or digits "." digits: its value as <<integer part, numerator,
\* denominator>>, or null.
NumberValue(t) ==
    IF BareDigits(t) THEN Some(<<DigitsVal(t), 0, 1>>)
    ELSE IF \E d \in 2..(Len(t) - 1) :
                /\ t[d] = "."
                /\ BareDigits(SubSeq(t, 1, d - 1)) /\ BareDigits(SubSeq(t, d + 1, Len(t)))
         THEN LET d == CHOOSE k \in 2..(Len(t) - 1) : t[k] = "."
              IN  Some(<<DigitsVal(SubSeq(t, 1, d - 1)), DigitsVal(SubSeq(t, d + 1, Len(t))),
                         Pow10(Len(t) - d)>>)
         ELSE Null

\* The byte count the claim gives string t, or null where it says abort.
ExpectedBytes(t) ==
    IF BareDigits(t) THEN Some(DigitsVal(t))
    ELSE IF Len(t) < 3 THEN Null
    ELSE LET n == NumberValue(SubSeq(t, 1, Len(t) - 2))
             u == UnitPower(SubSeq(t, Len(t) - 1, Len(t)))
             mult == IF u = 1 THEN 1024 ELSE IF u = 2 THEN 1024 * 1024
                     ELSE 1024 * 1024 * 1024
         IN  IF n = Null \/ u = 0 THEN Null
             ELSE Some(n[1][1] * mult + (n[1][2] * mult) \div n[1][3])

\* parseArgs has gone through a size expression that is not empty.
SizeParsed == tool = "cli" /\ pc \in {"start", "abort"} /\ ~EmptyOrNull(argv.size)

\* parseArgs treated string str as the claim says of string t.
ParsedAs(t) ==
    IF ExpectedBytes(t) = Null THEN pc = "abort"
    ELSE pc = "start" /\ args.maxSizeBytes = ExpectedBytes(t)

(* C14 as stated: parseSizeToBytes maps bare digits to that number of bytes, a *)
(* number followed by kb, mb or gb in any letter case to floor(number x 1024), *)
(* floor(number x 1024^2), floor(number x 1024^3), and aborts for every other  *)
(* string.                                                                     *)
C14_ParseSizeExact == SizeParsed => ParsedAs(argv.size[1])

(* C14, amended: the same mapping applies to the string with the white space   *)
(* at its two ends removed, and every other string aborts.                     *)
C14_ParseSizeTrimmed == SizeParsed => ParsedAs(Core(argv.size[1]))

\* " 1.001Kb" was parsed to floor(1.001 x 1024) = 1025 bytes.
C14_Witness ==
    /\ SizeParsed
    /\ argv.size = Some(<<" ", "1", ".", "0", "0", "1", "K", "b">>)
    /\ args.maxSizeBytes = Some(1025)

-----------------------------------------------------------------------------
\* Every encode so far, and the result if there is one, has the pixel dimensions
\* of the source; so has the canvas, and so has the size recorded in the item.
DimensionsKept ==
    /\ lastEnc # Null => lastEnc[1].dims = source
    /\ result # Null =>
          (IF tool = "cli" THEN result[1].buf.dims ELSE result[1].blob.dims) = source
    /\ canvas # Null => canvas[1] = source
    /\ item # Null => item[1] = source

(* C20: no encode attempt changes the pixel dimensions: over all the encodes   *)
(* of one image in compressWithTarget and encodeCanvasFitUnder the source's    *)
(* width and height stay as they are, every encoded image has them, and the    *)
(* width and height compressImages records for the image are the source's.     *)
C20_DimensionsUnchanged ==
    /\ []DimensionsKept
    /\ [][source' = source /\ (canvas # Null => canvas' = canvas)
                           /\ (item # Null => item' = item)]_vars

\* A 4000 x 3000 image went through a whole binary search of the web tool and
\* one of the batch tool that kept the metadata.
C20_Witness ==
    /\ source = Dims(4000, 3000) /\ Returned /\ probes > 0
    /\ tool = "web" => (caller = "compressImages" /\ item = Some(Dims(4000, 3000)))
    /\ tool = "cli" => ~args.stripMetadata

-----------------------------------------------------------------------------
\* The encoder calls of the second call so far are the first calls of the first
\* call, in the same order.
SameCallsSoFar ==
    /\ Len(log) <= Len(first[1].log)
    /\ \A k \in 1..Len(log) : log[k] = first[1].log[k]

-----------------------------------------------------------------------------
\* Number of iterations so far whose event is in S.
Count(S) == Cardinality({j \in 1..Len(events) : events[j] \in S})

\* fs.writeFile succeeded in the iteration of input j.
WrittenFor(j) == \E w \in 1..Len(writes) : writes[w].input = j

(* C16: a result with pass = false is not an error. In main its buffer is      *)
(* written and the input counted in ok, not in fail, and without exceptions    *)
(* the exit code stays 0; in compressImages it is stored in the item and the   *)
(* batch ends with the success toast; in both every later image is processed.  *)
C16_UnattainableIsData ==
    /\ tool = "cli" =>
          /\ \A j \in 1..Len(events) :
                events[j] = "nopass" =>
                    /\ \E w \in 1..Len(writes) :
                          writes[w] = [input |-> j, path |-> outputPathFor(inputs[j]),
                                       pass |-> FALSE]
                    /\ outputPathFor(inputs[j]) \in files
          /\ ok = Count({"pass", "nopass"})
          /\ fail = Count(Throws)
          /\ pc = "exit" => Len(events) = Len(inputs)
          /\ (pc = "exit" /\ Count(Throws) = 0) => exitCode = 0
    /\ tool = "web" =>
          /\ \A j \in 1..Len(events) :
                events[j] = "nopass" => imgFiles[j].compressed = Some([pass |-> FALSE])
          /\ (pc = "finished" /\ Count(Throws) = 0) =>
                /\ Len(events) = Len(imgFiles)
                /\ \A j \in 1..Len(imgFiles) : imgFiles[j].compressed # Null
                /\ toast = "success"

\* A run of three inputs the first of which missed its target: all three written.
C16_Witness ==
    /\ tool = "cli" /\ pc = "exit"
    /\ events = <<"nopass", "pass", "nopass">>
    /\ ok = 3 /\ fail = 0 /\ exitCode = 0 /\ Len(writes) = 3

(* C17: in main, when reading or encoding an input throws, fail is incremented, *)
(* nothing is written in that iteration, the loop goes on to every later input *)
(* and the exit code is 2.                                                     *)
C17_ThrowCaughtPerInput ==
    tool = "cli" =>
        /\ \A j \in 1..Len(events) :
              events[j] \in {"readThrows", "encodeThrows"} => ~WrittenFor(j)
        /\ fail = Count(Throws)
        /\ Len(events) = cur /\ cur <= Len(inputs)
        /\ pc = "exit" =>
              /\ cur = Len(inputs)
              /\ Count(Throws) > 0 => exitCode = 2

\* The first input could not be encoded, the two after it were written.
C17_Witness ==
    /\ tool = "cli" /\ pc = "exit"
    /\ events = <<"encodeThrows", "pass", "nopass">>
    /\ fail = 1 /\ ok = 2 /\ exitCode = 2
    /\ ~WrittenFor(1) /\ WrittenFor(2) /\ WrittenFor(3)

(* C18: in compressImages an exception while decoding or encoding image k is   *)
(* confined to image k: when the batch has ended every other image has its own *)
(* result.                                                                     *)
C18_ThrowConfinedToImage ==
    (tool = "web" /\ pc = "finished") =>
        \A j \in 1..Len(imgFiles) :
            (IF j <= Len(events) THEN events[j] \notin Throws ELSE TRUE) =>
                imgFiles[j].compressed # Null

-----------------------------------------------------------------------------
(* C21: with an encoder whose size does not decrease with fidelity (the stub), *)
(* when the binary search loop of compressWithTarget ends, its best encode is  *)
(* within the target, at a fidelity in [minQ, baseQ], and no fidelity from     *)
(* bestQ + 0.015 up to baseQ has an encode within the target.                  *)
C21_SearchFindsHighestFit ==
    (tool = "cli" /\ encoder = "stub" /\ found # Null) =>
        /\ found[1].best.size <= args.maxSizeBytes[1]
        /\ found[1].best.q = found[1].bestQ
        /\ minQ <= found[1].bestQ /\ found[1].bestQ <= baseQ
        /\ \A q \in (found[1].bestQ + Pct(15) \div 10)..baseQ :
              StubSize(q) > args.maxSizeBytes[1]

\* Searches between 0.55 and 0.85 that ended at 0.56 and a little below 0.85.
C21_Witness ==
    /\ tool = "cli" /\ encoder = "stub" /\ found # Null
    /\ \/ argv.size = Size(849999, "") /\ found[1].bestQ > Pct(83)
       \/ argv.size = Size(560000, "") /\ found[1].bestQ < Pct(57)

-----------------------------------------------------------------------------
(* C22: whenever the binary search of encodeCanvasFitUnder stops after fewer   *)
(* than 10 probes, its interval has narrowed to hi - lo <= 0.015.              *)
C22_WebStopsWithinTolerance ==
    (tool = "web" /\ found # Null /\ found[1].i < MaxProbesWeb) =>
        found[1].hi - found[1].lo <= Pct(15) \div 10

-----------------------------------------------------------------------------
(* C23: when the base fidelity equals the minimum fidelity, compressWithTarget *)
(* makes exactly one encoder call per variant it visits and                    *)
(* encodeCanvasFitUnder makes exactly one encoder call in total, whether or    *)
(* not that encode fits the target.                                            *)
C23_DegenerateSingleEncode ==
    /\ (tool = "cli" /\ args # Null /\ TargetSet /\ baseQ = minQ) =>
            calls = Len(baseSizes)
    /\ (tool = "web" /\ opts # Null /\ opts[1].baseQuality = opts[1].minQuality) =>
            calls <= 1

-----------------------------------------------------------------------------
-----------------------------------------------------------------------------
\* The sizes the encoder gave at fidelity q for the image and variant being
\* searched.
SizesAt(q) == {m[2] : m \in {n \in memo : n[1] = EncKey(q)}}

(* C25: throughout the binary search loops of compressWithTarget and           *)
(* encodeCanvasFitUnder, with any encoder: the encode at lo is <= target, the  *)
(* encode at hi is > target, the recorded best fidelity is lo and the recorded *)
(* best buffer is the encode at lo; the same holds of lo and the best buffer   *)
(* as the loop ends.                                                           *)
C25_LoopInvariant ==
    /\ pc \in {"search", "fitSearch"} =>
          /\ SizesAt(lo) # {} /\ \A s \in SizesAt(lo) : s <= Target[1]
          /\ SizesAt(hi) # {} /\ \A s \in SizesAt(hi) : s > Target[1]
          /\ bestQ = lo
          /\ best # Null /\ best[1].q = lo /\ best[1].size \in SizesAt(lo)
    /\ found # Null =>
          /\ found[1].bestQ = found[1].lo
          /\ found[1].best.q = found[1].lo
          /\ found[1].best.size <= Target[1]

\* Inside each tool's loop after probes that moved lo and hi, with the free
\* encoder.
C25_Witness ==
    /\ pc \in {"search", "fitSearch"} /\ encoder = "free"
    /\ i >= 2 /\ lo > (IF tool = "cli" THEN minQ ELSE opts[1].minQuality)
    /\ hi < (IF tool = "cli" THEN baseQ ELSE opts[1].baseQuality)

-----------------------------------------------------------------------------
(* C28, as stated: in every state of the image-compression settings            *)
(* state.imgUscisPreset implies state.imgTargetKB = 600, and the byte target   *)
(* compressImages uses equals state.imgTargetKB x 1024.                        *)
C28_TargetIsKBTimes1024 ==
    tool = "web" =>
        /\ st.imgUscisPreset => st.imgTargetKB = Kb(600)
        /\ (caller = "compressImages" /\ opts # Null) =>
              opts[1].targetBytes[1] * Kb(1) = st.imgTargetKB * 1024

(* C28, amended: state.imgUscisPreset implies state.imgTargetKB = 600, and the *)
(* byte target compressImages uses is state.imgTargetKB x 1024 rounded down to *)
(* a whole number of bytes.                                                    *)
C28_TargetIsFloorOfKBTimes1024 ==
    tool = "web" =>
        /\ st.imgUscisPreset => st.imgTargetKB = Kb(600)
        /\ (caller = "compressImages" /\ opts # Null) =>
              /\ opts[1].targetBytes[1] * Kb(1) <= st.imgTargetKB * 1024
              /\ st.imgTargetKB * 1024 < (opts[1].targetBytes[1] + 1) * Kb(1)

\* compressImages running with the preset unchecked by a target of 50.3 KB,
\* its byte target 51,507.
C28_Witness ==
    /\ tool = "web" /\ caller = "compressImages" /\ opts # Null
    /\ ~st.imgUscisPreset /\ st.imgTargetKB = Kb(50) + 3
    /\ opts[1].targetBytes = Some(51507)

-----------------------------------------------------------------------------
(* C29: within one run of main two different input files never map to the same *)
(* output path: no output written for one input is overwritten by another      *)
(* input of the run, and no input is skipped as existing because of the output *)
(* written for another input earlier in the run.                               *)
C29_OutputsNeverCollide ==
    tool = "cli" =>
        /\ \A w1, w2 \in 1..Len(writes) :
              (w1 < w2 /\ inputs[writes[w1].input] # inputs[writes[w2].input]) =>
                  writes[w1].path # writes[w2].path
        /\ \A k \in 1..Len(events) :
              (events[k] = "skip" /\ outputPathFor(inputs[k]) \notin existed) =>
                  ~\E j \in 1..(k - 1) :
                      /\ inputs[j] # inputs[k]
                      /\ WrittenFor(j)
                      /\ outputPathFor(inputs[j]) = outputPathFor(inputs[k])

-----------------------------------------------------------------------------
(* C30: the loop of main takes the inputs one at a time in input order; every  *)
(* input it has taken is counted exactly once, as ok (output written), fail    *)
(* (exception caught) or skipped (output exists, --overwrite off), so that     *)
(* ok + fail + skipped is the number of inputs when the loop has finished; and *)
(* without --overwrite an output that existed before the run is never written. *)
C30_EveryInputAccounted ==
    tool = "cli" =>
        /\ Len(events) = cur /\ cur <= Len(inputs)
        /\ \A w \in 1..Len(writes) :
              /\ writes[w].input \in 1..cur
              /\ writes[w].path = outputPathFor(inputs[writes[w].input])
              /\ events[writes[w].input] \in {"pass", "nopass"}
              /\ \A v \in 1..(w - 1) : writes[v].input < writes[w].input
        /\ ok = Count({"pass", "nopass"}) /\ ok = Len(writes)
        /\ fail = Count(Throws)
        /\ ok + fail + Count({"skip"}) = cur
        /\ pc = "exit" => ok + fail + Count({"skip"}) = Len(inputs)
        /\ ~args.overwrite =>
              /\ \A w \in 1..Len(writes) : writes[w].path \notin existed
              /\ \A k \in 1..cur :
                    outputPathFor(inputs[k]) \in existed => events[k] = "skip"
              /\ existed \subseteq files
        /\ \A k \in 1..cur : events[k] = "skip" =>
              ~args.overwrite /\ outputPathFor(inputs[k]) \in files

\* A finished run of three inputs without --overwrite: one written, one failed,
\* one skipped because its output existed before the run.
C30_Witness ==
    /\ tool = "cli" /\ pc = "exit" /\ ~args.overwrite
    /\ Len(inputs) = 3 /\ existed = {"x"}
    /\ ok = 1 /\ fail = 1 /\ Count({"skip"}) = 1
    /\ events[1] = "skip"

-----------------------------------------------------------------------------
(* The page: the five calls that hold state.busy, and updateCombinedEstimate *)

\* Bounds: pages of a PDF, images added, updateCombinedEstimate calls that get a
\* token, calls between setBusy(true) and setBusy(false) at once.
MaxPages == 2
MaxImages == 1
MaxEstimates == 2
MaxRunning == 2

\* The functions that call setBusy(true) ... setBusy(false).
Ops == {"convertPdfFile", "runConversion", "downloadAllAsZip", "compressImages",
        "downloadCompressedImagesZip"}

\* const done = state.imgFiles.filter((x) => x.compressed?.blob)
Done == {k \in 1..Len(imgFiles) : imgFiles[k].compressed # Null}

\* The part of each function's opening guard that is about its data: a file was
\* given; a PDF is loaded; there are pages, images, compressed images.
DataReady(op) ==
    CASE op = "convertPdfFile" -> TRUE
      [] op = "runConversion" -> pageCount >= 1
      [] op = "downloadAllAsZip" -> pages > 0
      [] op = "compressImages" -> imgFiles # <<>>
      [] op = "downloadCompressedImagesZip" -> Done # {}

\* The awaits a call goes through when nothing throws: convertPdfFile awaits
\* file.arrayBuffer() and getDocument(); the two ZIP downloads await
\* zip.generateAsync(); runConversion and compressImages go through their loop
\* once per page and per item (the awaits of one pass taken as one).
Awaits(op) ==
    CASE op = "convertPdfFile" -> 2
      [] op = "runConversion" -> pageCount
      [] op = "compressImages" -> Len(imgFiles)
      [] OTHER -> 1

\* Mutant: the opening guards without their state.busy test.
CanStartNoBusyCheck(op) == DataReady(op)

\* The opening guard: if (... || state.busy) return.
CanStart(op) == DataReady(op) /\ ~busy

\* The texts of #combinedPlan: "", "Estimating combined dimensions...", and the
\* "Estimated combined: ..." of the call that holds token t.
Empty == [kind |-> "empty", by |-> 0]
Estimating(t) == [kind |-> "estimating", by |-> t]
Estimated(t) == [kind |-> "estimated", by |-> t]

\* The synchronous part of a call of updateCombinedEstimate, state.pageCount
\* being count and state.mode md: clear the text and return, or take the next
\* token, show "Estimating..." and await the first page of order (count pages).
updateCombinedEstimate(count, md) ==
    IF count < 1 \/ md # "combined"
    THEN /\ combinedPlan' = Empty
         /\ UNCHANGED <<estimateToken, estimates>>
    ELSE /\ estimateToken' = estimateToken + 1
         /\ combinedPlan' = Estimating(estimateToken + 1)
         /\ estimates' = estimates \cup {[token |-> estimateToken + 1, i |-> 0, n |-> count]}

\* Cap on _estimateToken: a call that would take a token needs one left.
EstimateRoom(count, md) == (count >= 1 /\ md = "combined") => estimateToken < MaxEstimates

PageUnchanged ==
    /\ UNCHANGED <<tool, pc, inputs, existed, cur, ok, fail, exitCode, files, writes,
                   events>>
    /\ SearchUnchanged

\* A call of one of the five functions that passes its guard: what it does up
\* to setBusy(true) (convertPdfFile: clearResults(); runConversion: clear prior
\* outputs) and its first await.
OpStart(op) ==
    /\ tool = "web" /\ CanStart(op) /\ Len(running) < MaxRunning
    /\ busy' = TRUE
    /\ running' = Append(running, [op |-> op, step |-> 0, total |-> Awaits(op)])
    /\ pages' = IF op \in {"convertPdfFile", "runConversion"} THEN 0 ELSE pages
    /\ pageCount' = IF op = "convertPdfFile" THEN 0 ELSE pageCount
    /\ UNCHANGED <<mode, estimateToken, estimates, combinedPlan, imgFiles, toast>>
    /\ PageUnchanged

\* A call that returns at its guard.
OpRejected(op) ==
    /\ tool = "web" /\ ~CanStart(op)
    /\ UNCHANGED <<mode, pageCount, pages, running, estimateToken, estimates,
                   combinedPlan, imgFiles, busy, toast>>
    /\ PageUnchanged

\* One await of the k-th running call resolves: runConversion has one more page
\* in state.pages (individual mode), compressImages one more item compressed.
OpAwait(k) ==
    /\ tool = "web" /\ k \in 1..Len(running) /\ running[k].step < running[k].total
    /\ LET op == running[k].op
           n == running[k].step + 1
       IN  /\ running' = [running EXCEPT ![k].step = n]
           /\ pages' = IF op = "runConversion" /\ mode = "individual" /\ n <= pageCount
                        THEN n ELSE pages
           /\ imgFiles' = IF op = "compressImages" /\ n <= Len(imgFiles)
                           THEN [imgFiles EXCEPT ![n].compressed = Some([pass |-> TRUE])]
                           ELSE imgFiles
    /\ UNCHANGED <<mode, pageCount, estimateToken, estimates, combinedPlan, busy, toast>>
    /\ PageUnchanged

\* The k-th running call ends, after its last await or by an exception: the
\* rest of its try or its catch, then its finally with setBusy(false).
\* convertPdfFile ends its try with updateCombinedEstimate(); runConversion
\* calls it in its finally if state.mode is "combined".
OpEnd(k, outcome) ==
    /\ tool = "web" /\ k \in 1..Len(running)
    /\ outcome = "success" => running[k].step = running[k].total
    /\ LET op == running[k].op
       IN  /\ IF op = "convertPdfFile" /\ outcome = "success"
              THEN \E total \in 1..MaxPages :
                     /\ EstimateRoom(total, mode)
                     /\ pageCount' = total
                     /\ updateCombinedEstimate(total, mode)
              ELSE IF op = "runConversion" /\ mode = "combined"
              THEN /\ EstimateRoom(pageCount, mode)
                   /\ pageCount' = pageCount
                   /\ updateCombinedEstimate(pageCount, mode)
              ELSE UNCHANGED <<pageCount, estimateToken, estimates, combinedPlan>>
           /\ toast' = IF op = "downloadCompressedImagesZip" /\ outcome = "throw"
                       THEN toast
                       ELSE IF outcome = "throw" THEN "error" ELSE "success"
    /\ busy' = FALSE
    /\ running' = SubSeq(running, 1, k - 1) \o SubSeq(running, k + 1, Len(running))
    /\ UNCHANGED <<mode, pages, imgFiles>>
    /\ PageUnchanged

\* setMode(m), from the two mode buttons (disabled while busy).
setMode(m) ==
    /\ tool = "web" /\ ~busy /\ EstimateRoom(pageCount, m)
    /\ mode' = m
    /\ pages' = 0
    /\ IF m = "combined" THEN updateCombinedEstimate(pageCount, m)
       ELSE UNCHANGED <<estimateToken, estimates, combinedPlan>>
    /\ UNCHANGED <<pageCount, running, imgFiles, busy, toast>>
    /\ PageUnchanged

\* The change handlers of dpiSelect and spacingSelect (disabled while busy).
SettingChange ==
    /\ tool = "web" /\ ~busy /\ EstimateRoom(pageCount, mode)
    /\ IF mode = "combined" THEN updateCombinedEstimate(pageCount, mode)
       ELSE UNCHANGED <<estimateToken, estimates, combinedPlan>>
    /\ UNCHANGED <<mode, pageCount, pages, running, imgFiles, busy, toast>>
    /\ PageUnchanged

\* The dragend handler of an item of the reorder list, which renderReorderUI
\* shows for a PDF of two or more pages in combined mode.
DragEnd ==
    /\ tool = "web" /\ pageCount >= 2 /\ mode = "combined"
    /\ EstimateRoom(pageCount, mode)
    /\ updateCombinedEstimate(pageCount, mode)
    /\ UNCHANGED <<mode, pageCount, pages, running, imgFiles, busy, toast>>
    /\ PageUnchanged

\* The click handler of clearBtn (disabled while busy): clearResults().
ClearClick ==
    /\ tool = "web" /\ ~busy
    /\ pages' = 0 /\ pageCount' = 0
    /\ toast' = "success"
    /\ UNCHANGED <<mode, running, estimateToken, estimates, combinedPlan, imgFiles, busy>>
    /\ PageUnchanged

\* addImages with one accepted file.
addImages ==
    /\ tool = "web" /\ Len(imgFiles) < MaxImages
    /\ imgFiles' = Append(imgFiles, NewItem)
    /\ UNCHANGED <<mode, pageCount, pages, running, estimateToken, estimates,
                   combinedPlan, busy, toast>>
    /\ PageUnchanged

\* The await of state.pdfDoc.getPage(order[i]) of estimate call e settles. If it
\* rejects, the catch clears the text. Else the loop goes on: with pages left it
\* returns if its token is no longer _estimateToken, throws on a null
\* state.pdfDoc (caught: text cleared), or awaits the next page; with no page
\* left it leaves the loop and writes "Estimated combined: ...".
EstimateResume(e, rejects) ==
    /\ tool = "web" /\ e \in estimates
    /\ IF rejects
       THEN /\ combinedPlan' = Empty
            /\ estimates' = estimates \ {e}
       ELSE IF e.i + 1 < e.n
       THEN IF e.token # estimateToken
            THEN /\ combinedPlan' = combinedPlan
                 /\ estimates' = estimates \ {e}
            ELSE IF pageCount < 1
            THEN /\ combinedPlan' = Empty
                 /\ estimates' = estimates \ {e}
            ELSE /\ combinedPlan' = combinedPlan
                 /\ estimates' = (estimates \ {e}) \cup {[e EXCEPT !.i = e.i + 1]}
       ELSE /\ combinedPlan' = Estimated(e.token)
            /\ estimates' = estimates \ {e}
    /\ UNCHANGED <<mode, pageCount, pages, running, estimateToken, imgFiles, busy, toast>>
    /\ PageUnchanged

\* The page after mount(): setMode("individual"), nothing loaded, nothing running.
InitUi ==
    /\ tool = "web" /\ pc = "idle" /\ run = 0
    /\ encoder = "stub"
    /\ argv = Argv(Num(0), Num(0), Null, DefaultToggles) /\ args = NoArgs
    /\ st = state /\ caller = "" /\ opts = Null
    /\ InitLocals /\ source = Dims(600, 600)
    /\ NoBatch

NextUi ==
    \/ \E op \in Ops : OpStart(op)
    \/ \E op \in Ops : OpRejected(op)
    \/ \E k \in 1..MaxRunning : OpAwait(k)
    \/ \E k \in 1..MaxRunning, outcome \in {"success", "throw"} : OpEnd(k, outcome)
    \/ \E m \in {"individual", "combined"} : setMode(m)
    \/ SettingChange
    \/ DragEnd
    \/ ClearClick
    \/ addImages
    \/ \E e \in estimates, rejects \in BOOLEAN : EstimateResume(e, rejects)

SpecUi == InitUi /\ [][NextUi]_vars

(* C26: under any interleaving of user events and promise resolutions at most  *)
(* one of convertPdfFile, runConversion, downloadAllAsZip, compressImages and  *)
(* downloadCompressedImagesZip is between its setBusy(true) and its            *)
(* setBusy(false); state.busy is true exactly while one of them is, and false  *)
(* again once it has ended, by success or by exception.                        *)
C26_BusyIsMutex ==
    /\ Len(running) <= 1
    /\ busy <=> Len(running) = 1
    /\ \A op \in Ops : (\E k \in 1..Len(running) : running[k].op # op) => ~CanStart(op)

\* runConversion holds the flag, one page done, while there are images to
\* compress: a call of compressImages returns at its guard.
C26_Witness ==
    /\ busy /\ Len(running) = 1
    /\ running[1].op = "runConversion" /\ running[1].step = 1
    /\ DataReady("compressImages") /\ ~CanStart("compressImages")

(* C27: when updateCombinedEstimate calls overlap, only the most recently      *)
(* started one writes its result: the "Estimated combined" text in             *)
(* #combinedPlan is never that of a call superseded by a newer one, and no     *)
(* estimate text is displayed when the mode is not "combined".                 *)
C27_OnlyLatestEstimateWrites ==
    /\ combinedPlan.kind = "estimated" => combinedPlan.by = estimateToken
    /\ mode # "combined" => combinedPlan.kind # "estimated"


====
